---- MODULE Spec2Model ----
(***************************************************************************)
(* MinMax<T> of src/minmax.rs: a commutative accumulator keeping the       *)
(* number of samples, the minimum and the maximum.                         *)
(*                                                                         *)
(* A sample is a record [key, tag].  T's PartialOrd compares keys only, so *)
(* two samples with the same key and different tags compare equal and are  *)
(* still distinguishable values.  Option<T> is a sequence of length 0      *)
(* (None) or 1 (Some(x)), ordered as Rust derives it: None below Some.     *)
(***************************************************************************)
EXTENDS Integers, Sequences, FiniteSets, Bags, TLC

\* Bounds of the model.
MaxKey == 2
MaxLen == 3
MaxExt == 2

Slots == {1, 2, 3}
Pair == {1, 2}

Keys == 1..MaxKey
Plain == [key : Keys, tag : {"a"}]
Twin == [key |-> 1, tag |-> "b"]
Tagged == Plain \cup {Twin}

RECURSIVE SeqsUpTo(_, _)
SeqsUpTo(S, n) ==
    IF n = 0 THEN {<<>>}
    ELSE LET shorter == SeqsUpTo(S, n - 1)
         IN shorter \cup {Append(q, x) : q \in {r \in shorter : Len(r) = n - 1}, x \in S}

\* The iterators handed to extend and from_iter.
PlainIters == SeqsUpTo(Plain, MaxExt)
TaggedIters == SeqsUpTo(Tagged, MaxExt)

----------------------------------------------------------------------------
\* The ordering of T (PartialOrd) and of Option<T> (derived: None < Some(_)).

lt(x, y) == x.key < y.key
gt(x, y) == x.key > y.key

None == <<>>
Some(x) == <<x>>

opt_lt(a, b) ==
    IF a = None THEN b # None
    ELSE IF b = None THEN FALSE
    ELSE lt(a[1], b[1])

opt_gt(a, b) ==
    IF b = None THEN a # None
    ELSE IF a = None THEN FALSE
    ELSE gt(a[1], b[1])

----------------------------------------------------------------------------
\* The struct and its operations.

Option(T) == {None} \cup {Some(x) : x \in T}

MinMax == [len : Nat, min : Option(Tagged), max : Option(Tagged)]

default == [len |-> 0, min |-> None, max |-> None]

new == default

\* add with `<=` and `>=` in place of `<` and `>`: a tie replaces the bound.
add_replaces_on_tie(self, sample) ==
    LET s1 == [self EXCEPT !.len = @ + 1]
        s2 == IF (IF s1.min = None THEN TRUE ELSE ~gt(sample, s1.min[1]))
              THEN [s1 EXCEPT !.min = Some(sample)]
              ELSE s1
    IN IF (IF s2.max = None THEN TRUE ELSE ~lt(sample, s2.max[1]))
       THEN [s2 EXCEPT !.max = Some(sample)]
       ELSE s2

\* add whose second test was pasted from the first: `<` against max.
add_pasted_test(self, sample) ==
    LET s1 == [self EXCEPT !.len = @ + 1]
        s2 == IF (IF s1.min = None THEN TRUE ELSE lt(sample, s1.min[1]))
              THEN [s1 EXCEPT !.min = Some(sample)]
              ELSE s1
    IN IF (IF s2.max = None THEN TRUE ELSE lt(sample, s2.max[1]))
       THEN [s2 EXCEPT !.max = Some(sample)]
       ELSE s2

add(self, sample) ==
    LET s1 == [self EXCEPT !.len = @ + 1]
        s2 == IF (IF s1.min = None THEN TRUE ELSE lt(sample, s1.min[1]))
              THEN [s1 EXCEPT !.min = Some(sample)]
              ELSE s1
    IN IF (IF s2.max = None THEN TRUE ELSE gt(sample, s2.max[1]))
       THEN [s2 EXCEPT !.max = Some(sample)]
       ELSE s2

min(self) == self.min
max(self) == self.max
len(self) == self.len

\* merge with `self.len = v.len` in place of `self.len += v.len`.
merge_len_assigned(self, v) ==
    LET s1 == [self EXCEPT !.len = v.len]
        s2 == IF opt_lt(v.min, s1.min) THEN [s1 EXCEPT !.min = v.min] ELSE s1
    IN IF opt_gt(v.max, s2.max) THEN [s2 EXCEPT !.max = v.max] ELSE s2

\* merge that forgets `self.len += v.len`.
merge_len_forgotten(self, v) ==
    LET s2 == IF opt_lt(v.min, self.min) THEN [self EXCEPT !.min = v.min] ELSE self
    IN IF opt_gt(v.max, s2.max) THEN [s2 EXCEPT !.max = v.max] ELSE s2

\* merge that also takes v.min whenever self.min is unset.
merge_min_guarded(self, v) ==
    LET s1 == [self EXCEPT !.len = @ + v.len]
        s2 == IF s1.min = None \/ opt_lt(v.min, s1.min)
              THEN [s1 EXCEPT !.min = v.min]
              ELSE s1
    IN IF opt_gt(v.max, s2.max) THEN [s2 EXCEPT !.max = v.max] ELSE s2

\* merge whose second test was pasted from the first: `<` on max.
merge_pasted_test(self, v) ==
    LET s1 == [self EXCEPT !.len = @ + v.len]
        s2 == IF opt_lt(v.min, s1.min) THEN [s1 EXCEPT !.min = v.min] ELSE s1
    IN IF opt_lt(v.max, s2.max) THEN [s2 EXCEPT !.max = v.max] ELSE s2

merge(self, v) ==
    LET s1 == [self EXCEPT !.len = @ + v.len]
        s2 == IF opt_lt(v.min, s1.min) THEN [s1 EXCEPT !.min = v.min] ELSE s1
    IN IF opt_gt(v.max, s2.max) THEN [s2 EXCEPT !.max = v.max] ELSE s2

RECURSIVE extend(_, _)
extend(self, it) ==
    IF it = <<>> THEN self
    ELSE extend(add(self, Head(it)), Tail(it))

from_iter(it) == extend(new, it)

Unreachable == <<"unreachable!">>

fmt(self) ==
    IF self.min # None /\ self.max # None
    THEN <<"[", self.min[1], ", ", self.max[1], "]">>
    ELSE IF self.min = None /\ self.max = None
    THEN <<"N/A">>
    ELSE Unreachable

----------------------------------------------------------------------------
\* State: the trackers the caller owns, and two history variables kept by
\* the audited specification only: the bag of samples a tracker has
\* incorporated, and whether it was built by new/from_iter/add/extend alone.

VARIABLES trackers, hist, built

vars == <<trackers, hist, built>>

TypeOK ==
    /\ trackers \in [Slots -> MinMax]
    /\ \A i \in Slots : IsABag(hist[i]) /\ BagToSet(hist[i]) \subseteq Tagged
    /\ built \in [Slots -> BOOLEAN]

Init ==
    /\ trackers = [i \in Slots |-> new]
    /\ hist = [i \in Slots |-> EmptyBag]
    /\ built = [i \in Slots |-> TRUE]

New(i) ==
    trackers' = [trackers EXCEPT ![i] = new]

Add(i, sample) ==
    /\ len(trackers[i]) < MaxLen
    /\ trackers' = [trackers EXCEPT ![i] = add(@, sample)]

Extend(i, it) ==
    /\ len(trackers[i]) + Len(it) <= MaxLen
    /\ trackers' = [trackers EXCEPT ![i] = extend(@, it)]

\* from_iter returns a tracker of its own: it lands in a slot that holds
\* none yet (New frees a slot).
FromIter(i, it) ==
    /\ trackers[i] = new
    /\ trackers' = [trackers EXCEPT ![i] = from_iter(it)]

\* self.merge(v) with v a clone of tracker j (MinMax derives Clone); i = j
\* merges a tracker with a copy of itself.
Merge(i, j) ==
    /\ len(trackers[i]) + len(trackers[j]) <= MaxLen
    /\ trackers' = [trackers EXCEPT ![i] = merge(@, trackers[j])]

RECURSIVE BagOf(_)
BagOf(it) == IF it = <<>> THEN EmptyBag ELSE SetToBag({Head(it)}) (+) BagOf(Tail(it))

Log(i, bag, b) ==
    /\ hist' = [hist EXCEPT ![i] = bag]
    /\ built' = [built EXCEPT ![i] = b]

Next ==
    \/ \E i \in Slots : New(i) /\ UNCHANGED <<hist, built>>
    \/ \E i \in Slots, sample \in Plain : Add(i, sample) /\ UNCHANGED <<hist, built>>
    \/ \E i \in Slots, it \in PlainIters :
          Extend(i, it) /\ UNCHANGED <<hist, built>>
    \/ \E i \in Slots, it \in PlainIters :
          FromIter(i, it) /\ UNCHANGED <<hist, built>>
    \/ \E i \in Slots, j \in Slots : Merge(i, j) /\ UNCHANGED <<hist, built>>

Spec == Init /\ [][Next]_vars

NextAudit ==
    \/ \E i \in Pair : New(i) /\ Log(i, EmptyBag, TRUE)
    \/ \E i \in Pair, sample \in Tagged :
          Add(i, sample) /\ Log(i, hist[i] (+) BagOf(<<sample>>), built[i])
    \/ \E i \in Pair, it \in TaggedIters :
          Extend(i, it) /\ Log(i, hist[i] (+) BagOf(it), built[i])
    \/ \E i \in Pair, it \in TaggedIters :
          FromIter(i, it) /\ Log(i, BagOf(it), TRUE)
    \/ \E i \in Pair, j \in Pair :
          Merge(i, j) /\ Log(i, hist[i] (+) hist[j], FALSE)

SpecAudit == Init /\ [][NextAudit]_vars

----------------------------------------------------------------------------
\* Vocabulary of the properties.

\* Two optional bounds agree under the ordering of the sample values.
EqBound(a, b) ==
    IF a = None \/ b = None THEN a = b
    ELSE ~lt(a[1], b[1]) /\ ~gt(a[1], b[1])

SameResult(m, n) ==
    /\ len(m) = len(n)
    /\ EqBound(min(m), min(n))
    /\ EqBound(max(m), max(n))

\* The lesser and the greater of two optional bounds, an unset one losing.
Lesser(a, b) == IF a = None THEN b ELSE IF b = None THEN a
                ELSE IF lt(b[1], a[1]) THEN b ELSE a
Greater(a, b) == IF a = None THEN b ELSE IF b = None THEN a
                 ELSE IF gt(b[1], a[1]) THEN b ELSE a

KeysOf(bag) == {x.key : x \in BagToSet(bag)}
LeastKey(bag) == CHOOSE k \in KeysOf(bag) : \A o \in KeysOf(bag) : k <= o
GreatestKey(bag) == CHOOSE k \in KeysOf(bag) : \A o \in KeysOf(bag) : k >= o

\* The bounds of a bag of samples, as the true minimum and maximum.
TrueBounds(m, bag) ==
    IF BagCardinality(bag) = 0 THEN min(m) = None /\ max(m) = None
    ELSE /\ min(m) # None /\ min(m)[1].key = LeastKey(bag)
         /\ max(m) # None /\ max(m)[1].key = GreatestKey(bag)

P1 == [key |-> 1, tag |-> "a"]

----------------------------------------------------------------------------
\* C1: in every reachable state min() is None iff len() = 0, and max() is
\* None iff len() = 0.
PresenceIffCount ==
    \A i \in Slots :
        /\ (min(trackers[i]) = None) <=> (len(trackers[i]) = 0)
        /\ (max(trackers[i]) = None) <=> (len(trackers[i]) = 0)

\* C2: merging a fresh empty tracker into T leaves T's (len, min, max)
\* unchanged, and merging T into a fresh empty tracker yields T's.
MergeEmptyIsIdentity ==
    \A i \in Slots :
        /\ merge(trackers[i], new) = trackers[i]
        /\ merge(new, trackers[i]) = trackers[i]

\* C3: for trackers A and B built from sample sequences, A.merge(B) has the
\* sum of the lengths, the lesser of the minima and the greater of the
\* maxima (unset losing to set), i.e. the bounds of all samples of both.
MergeAdditivity ==
    \A i \in Pair, j \in Pair :
        built[i] /\ built[j] =>
            LET r == merge(trackers[i], trackers[j])
            IN /\ len(r) = len(trackers[i]) + len(trackers[j])
               /\ EqBound(min(r), Lesser(min(trackers[i]), min(trackers[j])))
               /\ EqBound(max(r), Greater(max(trackers[i]), max(trackers[j])))
               /\ TrueBounds(r, hist[i] (+) hist[j])

\* C4: merging A into a copy of B gives the same (len, min, max) as merging
\* B into a copy of A, the bounds compared by the ordering of the samples.
MergeCommutes ==
    \A i \in Pair, j \in Pair :
        SameResult(merge(trackers[i], trackers[j]), merge(trackers[j], trackers[i]))

\* Two non-empty trackers whose merges in the two orders store different
\* (equal-comparing) minima.
MergeCommutesWitness ==
    \E i \in Pair, j \in Pair :
        /\ len(trackers[i]) > 0 /\ len(trackers[j]) > 0
        /\ min(merge(trackers[i], trackers[j])) # None
        /\ min(merge(trackers[i], trackers[j])) # min(merge(trackers[j], trackers[i]))

\* C5: a tracker built from new() by adding samples, in whatever order they
\* came, has the true minimum and maximum of the multiset added and its size
\* as len().
AddOrderIndependent ==
    \A i \in Pair :
        built[i] =>
            /\ len(trackers[i]) = BagCardinality(hist[i])
            /\ TrueBounds(trackers[i], hist[i])

\* A tracker built by adds alone from three samples of more than one key.
AddOrderIndependentWitness ==
    \E i \in Pair :
        /\ built[i]
        /\ len(trackers[i]) = 3
        /\ Cardinality(KeysOf(hist[i])) > 1

\* C6: no reachable tracker has exactly one of min and max set, so Debug
\* never reaches its unreachable!() arm.
DebugNeverUnreachable ==
    \A i \in Slots :
        /\ (trackers[i].min = None) = (trackers[i].max = None)
        /\ fmt(trackers[i]) # Unreachable

\* C7: len() is the number of samples ever incorporated, by add or through
\* merged-in trackers.
LenCountsSamples ==
    \A i \in Pair : len(trackers[i]) = BagCardinality(hist[i])

\* A tracker merged with an equal copy holds every sample twice.
LenCountsSamplesWitness ==
    \E i \in Pair :
        /\ ~built[i]
        /\ len(trackers[i]) = 2
        /\ \E x \in Tagged : hist[i] = BagOf(<<x, x>>)

\* C8: (A merge B) merge C gives the same (len, min, max) as
\* A merge (B merge C).
MergeAssociates ==
    \A i \in Slots, j \in Slots, k \in Slots :
        SameResult(merge(merge(trackers[i], trackers[j]), trackers[k]),
                   merge(trackers[i], merge(trackers[j], trackers[k])))

\* Three non-empty trackers, one with its minimum unset, two with different
\* minima.
MergeAssociatesWitness ==
    /\ \A i \in Slots : len(trackers[i]) > 0
    /\ min(trackers[1]) = None
    /\ min(trackers[2]) # None /\ min(trackers[3]) # None
    /\ ~EqBound(min(trackers[2]), min(trackers[3]))

MaxGreatestMinASample ==
    \A i \in Pair :
        /\ len(trackers[i]) > 0 =>
              /\ max(trackers[i]) # None
              /\ BagIn(max(trackers[i])[1], hist[i])
              /\ max(trackers[i])[1].key = GreatestKey(hist[i])
        /\ min(trackers[i]) # None =>
              /\ BagIn(min(trackers[i])[1], hist[i])
              /\ max(trackers[i]) # None
              /\ ~gt(min(trackers[i])[1], max(trackers[i])[1])

\* A tracker that lost its minimum in a merge with an empty tracker and then
\* took a further sample above the least one it had incorporated.
MaxGreatestMinASampleWitness ==
    \E i \in Pair :
        /\ ~built[i]
        /\ min(trackers[i]) # None
        /\ min(trackers[i])[1].key > LeastKey(hist[i])

====
